---- MODULE Spec2Model ----
(***************************************************************************)
(* Briefit: the multi-source collection pipeline                           *)
(* (collect -> summarize -> send) of src/main.py and the adapters under    *)
(* src/collectors, the fallback listing of src/summarizer and the delivery *)
(* call of src/sender.                                                     *)
(*                                                                         *)
(* Encoding of Python values.  A string is a sequence of tokens, a token   *)
(* being a run of characters the code never looks inside (" " is one       *)
(* whitespace character).  A value that may be None is wrapped:            *)
(* None, Str(tokens), Num(n).  A long text whose content is never          *)
(* inspected (description, body) is known by its length.  A dict is a      *)
(* record; a missing key is a field outside its DOMAIN.                    *)
(***************************************************************************)
EXTENDS Integers, Sequences, FiniteSets, TLC

VARIABLES now, call, again, pc, news, env, doc, prompt, llm_calls, delivery_calls, sent

vars == <<now, call, again, pc, news, env, doc, prompt, llm_calls, delivery_calls, sent>>

\* ------------------------------------------------------------------------
\* Bounds of the model
MaxFeed == 2
MaxLinks == 2
MaxHits == 3
MaxReleases == 3
MaxNews == 3
MaxLimit == 2
StartNow == 6
MaxNow == 8
DayTicks == 2
MaxDays == 17

\* ------------------------------------------------------------------------
\* Python values
None == [t |-> "none"]
Str(s) == [t |-> "str", s |-> s]
Num(n) == [t |-> "int", n |-> n]
Text(n) == [t |-> "text", len |-> n]
\* a date string, known by its shape, its wall-clock reading (in ticks) and
\* its UTC offset
DateStr(shape, at, off) == [t |-> "date", shape |-> shape, at |-> at, off |-> off]

Truthy(v) ==
  CASE v.t = "none" -> FALSE
    [] v.t = "str" -> v.s # <<>>
    [] v.t = "int" -> v.n # 0
    [] v.t = "text" -> v.len # 0
    [] v.t = "date" -> TRUE

Get(d, k, default) == IF k \in DOMAIN d THEN d[k] ELSE default

Min(a, b) == IF a < b THEN a ELSE b

RECURSIVE LStrip(_)
LStrip(s) == IF s # <<>> /\ Head(s) = " " THEN LStrip(Tail(s)) ELSE s

RECURSIVE RStrip(_)
RStrip(s) == IF s # <<>> /\ s[Len(s)] = " " THEN RStrip(SubSeq(s, 1, Len(s) - 1)) ELSE s

Strip(s) == RStrip(LStrip(s))

\* a faulty variant: a list shared between calls, as a mutable default
\* argument would be
KeptList(left) == left

\* `results = []` at the head of every adapter: the list is a local of the
\* call, and nothing an earlier call left behind is visible in it
FreshList(left) == <<>>

\* an outcome of a call: a returned list, or an exception that escaped
Returned(items) == [raised |-> FALSE, items |-> items]
Raised == [raised |-> TRUE, items |-> <<>>]

\* ------------------------------------------------------------------------
\* ai_blogs.parse_rss_date: the formats are tried in order, the first that
\* parses wins.
RssFormats == <<"%a, %d %b %Y %H:%M:%S %Z", "%a, %d %b %Y %H:%M:%S %z",
                "%Y-%m-%dT%H:%M:%S%z", "%Y-%m-%dT%H:%M:%SZ">>

strptime(ds, fmt) ==
  CASE fmt = RssFormats[1] /\ ds.shape = "rfc822_name" ->
         [ok |-> TRUE, t |-> ds.at, aware |-> FALSE, off |-> 0]
    [] fmt = RssFormats[2] /\ ds.shape = "rfc822_off" ->
         [ok |-> TRUE, t |-> ds.at, aware |-> TRUE, off |-> ds.off]
    [] fmt = RssFormats[3] /\ ds.shape = "iso_off" ->
         [ok |-> TRUE, t |-> ds.at, aware |-> TRUE, off |-> ds.off]
    [] fmt = RssFormats[3] /\ ds.shape = "iso_z" ->
         [ok |-> TRUE, t |-> ds.at, aware |-> TRUE, off |-> 0]
    [] fmt = RssFormats[4] /\ ds.shape = "iso_z" ->
         [ok |-> TRUE, t |-> ds.at, aware |-> FALSE, off |-> 0]
    [] OTHER -> [ok |-> FALSE]

RECURSIVE parse_rss_date_from(_, _)
parse_rss_date_from(ds, i) ==
  IF i > Len(RssFormats) THEN [ok |-> FALSE]
  ELSE IF strptime(ds, RssFormats[i]).ok THEN strptime(ds, RssFormats[i])
  ELSE parse_rss_date_from(ds, i + 1)

parse_rss_date(ds) == parse_rss_date_from(ds, 1)

\* datetime comparison pub_date < cutoff_date, both timezone-aware
UtcOf(d) == d.t - d.off

\* pub_date.replace(tzinfo=timezone.utc) for a naive datetime
AsUtcIfNaive(d) == IF d.aware THEN d ELSE [d EXCEPT !.aware = TRUE, !.off = 0]

\* a faulty variant: the wall-clock reading compared without its offset
RssTooOldWallClock(pub_date, cutoff_date) == pub_date.t < cutoff_date

\* if pub_date < cutoff_date, after a naive date was made UTC
RssTooOld(pub_date, cutoff_date) == UtcOf(AsUtcIfNaive(pub_date)) < cutoff_date

\* timedelta(days=days)
timedelta(days) == days * DayTicks

\* `a or b` on findtext results: None and "" are both falsy
Or(a, b) == IF a # <<>> THEN a ELSE b

DateOr(a, b) == IF Truthy(a) THEN a ELSE b

\* ai_blogs.fetch_rss, the body of the loop over the feed's entries
\* a faulty variant: the cap counted over the entries scanned
RssCapReachedScan(i, results, limit) == i > limit

\* if len(results) >= limit: break
RssCapReached(i, results, limit) == Len(results) >= limit

RECURSIVE rss_loop(_, _, _, _, _, _)
rss_loop(items, i, results, source_name, cutoff_date, limit) ==
  IF i > Len(items) \/ RssCapReached(i, results, limit) THEN results
  ELSE LET item == items[i]
           title == Or(item.title, item.atom_title)
           link == Or(item.link, item.atom_href)
           pub_date_str == DateOr(item.pubDate, item.published)
           description == IF item.description # 0 THEN item.description
                          ELSE item.atom_summary
           pub_date == IF Truthy(pub_date_str)
                       THEN parse_rss_date(pub_date_str) ELSE [ok |-> FALSE]
       IN IF title = <<>> \/ link = <<>>
          THEN rss_loop(items, i + 1, results, source_name, cutoff_date, limit)
          ELSE IF pub_date.ok /\ RssTooOld(pub_date, cutoff_date)
          THEN rss_loop(items, i + 1, results, source_name, cutoff_date, limit)
          ELSE rss_loop(items, i + 1,
                        Append(results,
                               [source |-> source_name,
                                title |-> Str(Strip(title)),
                                url |-> Str(Strip(link)),
                                published_at |-> pub_date_str,
                                summary |-> Min(description, 500)]),
                        source_name, cutoff_date, limit)

\* ai_blogs.fetch_rss: a transport failure or malformed XML gives []
fetch_rss(response, clock, source_name, days, limit, left) ==
  IF response.status = "error" THEN Returned(<<>>)
  ELSE IF response.status = "malformed" THEN Returned(<<>>)
  ELSE Returned(rss_loop(response.items, 1, FreshList(left), source_name,
                         clock - timedelta(days), limit))

\* ------------------------------------------------------------------------
\* len() of a string: the sum of the lengths of its tokens
TokLen(tok) ==
  CASE tok = " " -> 1
    [] tok = "News" -> 4
    [] tok = "Claude" -> 6
    [] tok = "Alpha" -> 5
    [] tok = "beta" -> 4
    [] tok = "(3 minute read)" -> 15
    [] tok = "(Sponsor)" -> 9
    [] tok = "Recommended" -> 11
    [] tok = "Stories In" -> 10
    [] tok = "Testing" -> 7
    [] tok = "Automation" -> 10
    [] OTHER -> 1

RECURSIVE StrLen(_)
StrLen(s) == IF s = <<>> THEN 0 ELSE TokLen(Head(s)) + StrLen(Tail(s))

\* ai_blogs.fetch_anthropic: href=re.compile(r"^/news/[^/]+$")
SlashTokens == {"/", "/news/", "/about"}

IsNewsPath(href) ==
  /\ Len(href) >= 2
  /\ href[1] = "/news/"
  /\ \A k \in 2..Len(href) : href[k] \notin SlashTokens

RECURSIVE anthropic_loop(_, _, _, _)
anthropic_loop(links, i, results, limit) ==
  IF i > Len(links) \/ Len(results) >= limit THEN results
  ELSE LET link == links[i]
           href == link.href
           url == <<"https://www.anthropic.com">> \o href
           text == link.text
           title == IF (text = <<>> \/ StrLen(text) < 5) /\ link.has_heading
                    THEN link.heading ELSE text
       IN IF title = <<>> \/ StrLen(title) < 5
          THEN anthropic_loop(links, i + 1, results, limit)
          ELSE IF \E k \in 1..Len(results) : results[k].url = Str(url)
          THEN anthropic_loop(links, i + 1, results, limit)
          ELSE anthropic_loop(links, i + 1,
                              Append(results,
                                     [source |-> "Anthropic",
                                      title |-> Str(title),
                                      url |-> Str(url),
                                      published_at |-> None,
                                      summary |-> 0]),
                              limit)

fetch_anthropic(response, days, limit, left) ==
  IF response.status = "error" THEN Returned(<<>>)
  ELSE Returned(anthropic_loop(SelectSeq(response.links, LAMBDA a : IsNewsPath(a.href)),
                               1, FreshList(left), limit))

\* ------------------------------------------------------------------------
\* hackernews.collect
\* str() of a value inside an f-string
Fmt(v) ==
  CASE v.t = "none" -> <<"None">>
    [] v.t = "str" -> v.s
    [] OTHER -> <<"?">>

hn_item(hit) ==
  [source |-> "Hacker News",
   title |-> Get(hit, "title", None),
   url |-> IF Truthy(Get(hit, "url", None)) THEN hit.url
           ELSE Str(<<"https://news.ycombinator.com/item?id=">> \o Fmt(Get(hit, "objectID", None))),
   score |-> Get(hit, "points", None),
   comments |-> Get(hit, "num_comments", Num(0)),
   hn_url |-> Str(<<"https://news.ycombinator.com/item?id=">> \o Fmt(Get(hit, "objectID", None))),
   created_at |-> Get(hit, "created_at", None)]

MapSeq(s, F(_)) == [k \in 1..Len(s) |-> F(s[k])]

\* the sort key, lambda x: x.get("score", 0)
hn_key(x) == Get(x, "score", Num(0))

\* list.sort(reverse=True) is stable: an item goes after every item whose
\* key is greater or equal
RECURSIVE InsertDesc(_, _)
InsertDesc(sorted, x) ==
  IF sorted = <<>> THEN <<x>>
  ELSE IF hn_key(Head(sorted)).n >= hn_key(x).n
       THEN <<Head(sorted)>> \o InsertDesc(Tail(sorted), x)
       ELSE <<x>> \o sorted

RECURSIVE SortDesc(_, _)
SortDesc(s, acc) ==
  IF s = <<>> THEN acc ELSE SortDesc(Tail(s), InsertDesc(acc, Head(s)))

\* comparing None with anything raises TypeError; a list of fewer than two
\* items is never compared
SortRaises(results) ==
  /\ Len(results) >= 2
  /\ \E k \in 1..Len(results) : hn_key(results[k]).t # "int"

hn_collect(response, limit, left) ==
  IF response.status = "error" THEN Returned(<<>>)
  ELSE LET results == FreshList(left) \o MapSeq(Get(response.data, "hits", <<>>), hn_item)
       IN IF SortRaises(results) THEN Raised
          ELSE Returned(SortDesc(results, <<>>))

\* ------------------------------------------------------------------------
\* playwright_releases.parse_date: None for None, "" and for a string
\* fromisoformat rejects
parse_date(date_str) ==
  IF ~Truthy(date_str) THEN [ok |-> FALSE]
  ELSE CASE date_str.shape = "iso_z" ->
              [ok |-> TRUE, t |-> date_str.at, aware |-> TRUE, off |-> 0]
         [] date_str.shape = "iso_off" ->
              [ok |-> TRUE, t |-> date_str.at, aware |-> TRUE, off |-> date_str.off]
         [] date_str.shape = "iso_naive" ->
              [ok |-> TRUE, t |-> date_str.at, aware |-> FALSE, off |-> 0]
         [] OTHER -> [ok |-> FALSE]

\* playwright_releases.collect, the loop over releases[:limit]; the result is
\* Raised when an exception leaves the loop
RECURSIVE pw_loop(_, _, _, _)
pw_loop(releases, i, results, cutoff_date) ==
  IF i > Len(releases) THEN Returned(results)
  ELSE LET release == releases[i]
           published_at == parse_date(Get(release, "published_at", None))
       IN IF published_at.ok /\ ~published_at.aware THEN Raised
          ELSE IF published_at.ok /\ UtcOf(published_at) < cutoff_date
          THEN pw_loop(releases, i + 1, results, cutoff_date)
          ELSE IF Get(release, "body", Text(0)).t = "none" THEN Raised
          ELSE pw_loop(releases, i + 1,
                       Append(results,
                              [source |-> "Playwright",
                               title |-> IF Truthy(Get(release, "name", None))
                                         THEN release.name
                                         ELSE Get(release, "tag_name", None),
                               url |-> Get(release, "html_url", None),
                               published_at |-> Get(release, "published_at", None),
                               body |-> Min(Get(release, "body", Text(0)).len, 1000),
                               tag |-> Get(release, "tag_name", None)]),
                       cutoff_date)

pw_collect(response, clock, days, limit, left) ==
  IF response.status = "error" THEN Returned(<<>>)
  ELSE pw_loop(SubSeq(response.releases, 1, Min(limit, Len(response.releases))),
               1, FreshList(left), clock - timedelta(days))

\* ------------------------------------------------------------------------
\* tldr.get_newsletter_urls.  A date is a day number, day 0 being a Monday;
\* date_str is the date, the url is the archive prefix followed by it.
Today(clock) == clock \div DayTicks

\* a faulty variant: isoweekday(), which counts Monday as 1 and Sunday as 7
isoweekday(date) == (date % 7) + 1

\* date.weekday(): Monday is 0, Sunday is 6
weekday(date) == date % 7

RECURSIVE urls_loop(_, _, _, _)
urls_loop(today, days_back, urls, days) ==
  IF days_back >= days + 7 \/ Len(urls) >= days THEN urls
  ELSE LET date == today - days_back
       IN IF weekday(date) >= 5
          THEN urls_loop(today, days_back + 1, urls, days)
          ELSE urls_loop(today, days_back + 1,
                         Append(urls, <<<<"https://tldr.tech/tech/", date>>, date>>), days)

get_newsletter_urls(clock, days) ==
  LET urls == urls_loop(Today(clock), 0, <<>>, days)
  IN SubSeq(urls, 1, Min(days, Len(urls)))

\* re.compile(r"utm_source=tldr") searched in the href
UtmTokens == {"utm_source=tldr", "utm_source=tldrnewsletter"}
HasUtm(href) == \E k \in 1..Len(href) : href[k] \in UtmTokens

\* "tldr.tech" in href
TldrTechTokens == {"https://tldr.tech/", "https://advertise.tldr.tech/"}
IsSelfLink(href) == \E k \in 1..Len(href) : href[k] \in TldrTechTokens

\* href.split("?")[0]
RECURSIVE BeforeQuery(_)
BeforeQuery(href) ==
  IF href = <<>> \/ Head(href) = "?" THEN <<>>
  ELSE <<Head(href)>> \o BeforeQuery(Tail(href))

\* re.sub(r"\s*\(\d+\s*minute\s*read\)\s*", "", title): every match, found
\* left to right, is the read-time marker with the whitespace around it
ReadTimeTokens == {"(3 minute read)", "(12minuteread)"}

RECURSIVE SkipSpace(_)
SkipSpace(s) == IF s # <<>> /\ Head(s) = " " THEN SkipSpace(Tail(s)) ELSE s

RECURSIVE sub_read_time(_)
sub_read_time(s) ==
  IF s = <<>> THEN <<>>
  ELSE IF SkipSpace(s) # <<>> /\ Head(SkipSpace(s)) \in ReadTimeTokens
       THEN sub_read_time(SkipSpace(Tail(SkipSpace(s))))
       ELSE <<Head(s)>> \o sub_read_time(Tail(s))

clean_title(title) == Strip(sub_read_time(title))

\* tldr.fetch_articles_from_page, the loop over article_links
RECURSIVE tldr_loop(_, _, _, _, _, _)
tldr_loop(article_links, i, results, seen_urls, date_str, limit) ==
  IF i > Len(article_links) \/ Len(results) >= limit THEN results
  ELSE LET link == article_links[i]
           href == link.href
           title == IF link.has_h3 THEN link.h3 ELSE link.text
           summary == IF link.has_p THEN link.p ELSE 0
       IN IF href \in seen_urls
          THEN tldr_loop(article_links, i + 1, results, seen_urls, date_str, limit)
          ELSE IF title = <<>> \/ StrLen(title) < 10
          THEN tldr_loop(article_links, i + 1, results, seen_urls \cup {href}, date_str, limit)
          ELSE IF (\E k \in 1..Len(title) : title[k] = "(Sponsor)") \/ IsSelfLink(href)
          THEN tldr_loop(article_links, i + 1, results, seen_urls \cup {href}, date_str, limit)
          ELSE tldr_loop(article_links, i + 1,
                         Append(results,
                                [source |-> "TLDR",
                                 title |-> Str(clean_title(title)),
                                 url |-> Str(BeforeQuery(href)),
                                 summary |-> summary,
                                 date |-> date_str]),
                         seen_urls \cup {href}, date_str, limit)

fetch_articles_from_page(response, date_str, limit, left) ==
  IF response.status = "error" THEN Returned(<<>>)
  ELSE Returned(tldr_loop(SelectSeq(response.links, LAMBDA a : HasUtm(a.href)),
                          1, FreshList(left), {}, date_str, limit))

\* tldr.collect: the editions of the last `days` weekdays, without the
\* articles whose url an earlier one already has
RECURSIVE tldr_dedup(_, _, _, _)
tldr_dedup(articles, i, results, seen_urls) ==
  IF i > Len(articles) THEN [results |-> results, seen_urls |-> seen_urls]
  ELSE IF articles[i].url \in seen_urls
       THEN tldr_dedup(articles, i + 1, results, seen_urls)
       ELSE tldr_dedup(articles, i + 1, Append(results, articles[i]),
                       seen_urls \cup {articles[i].url})

RECURSIVE tldr_days(_, _, _, _, _, _)
tldr_days(site, urls, i, results, seen_urls, per_day) ==
  IF i > Len(urls) THEN results
  ELSE LET date_str == urls[i][2]
           articles == fetch_articles_from_page(Get(site, date_str, [status |-> "error"]),
                                                date_str, per_day, <<>>).items
           kept == tldr_dedup(articles, 1, results, seen_urls)
       IN tldr_days(site, urls, i + 1, kept.results, kept.seen_urls, per_day)

tldr_collect(site, clock, days, per_day, left) ==
  Returned(tldr_days(site, get_newsletter_urls(clock, days), 1, FreshList(left), {}, per_day))

\* ------------------------------------------------------------------------
\* medium.collect
MEDIUM_TAGS == <<"technology", "artificial-intelligence", "programming">>

\* "Recommended" in title, "stories in" in title.lower()
IsBoilerplate(title) ==
  \/ \E k \in 1..Len(title) : title[k] = "Recommended"
  \/ \E k \in 1..Len(title) : title[k] \in {"Stories In", "stories in"}

\* href.startswith("/")
RelativeTokens == {"/", "/p/"}
StartsWithSlash(href) == href # <<>> /\ href[1] \in RelativeTokens

HasQuery(href) == \E k \in 1..Len(href) : href[k] = "?"

medium_url(evaluated) ==
  LET absolute == IF evaluated # <<>> /\ StartsWithSlash(evaluated)
                  THEN <<"https://medium.com">> \o evaluated ELSE evaluated
  IN IF absolute # <<>> /\ HasQuery(absolute) THEN BeforeQuery(absolute) ELSE absolute

\* the loop over the h2 elements of one tag page; an exception inside the
\* body of the loop skips that heading
RECURSIVE medium_h2_loop(_, _, _, _, _, _)
medium_h2_loop(h2_elements, i, results, seen_titles, tag, limit) ==
  IF i > Len(h2_elements) \/ Len(results) >= limit
  THEN [results |-> results, seen_titles |-> seen_titles]
  ELSE LET h2 == h2_elements[i]
           title == Strip(h2.inner_text)
       IN IF ~h2.text_ok
          THEN medium_h2_loop(h2_elements, i + 1, results, seen_titles, tag, limit)
          ELSE IF title = <<>> \/ StrLen(title) < 15
          THEN medium_h2_loop(h2_elements, i + 1, results, seen_titles, tag, limit)
          ELSE IF IsBoilerplate(title)
          THEN medium_h2_loop(h2_elements, i + 1, results, seen_titles, tag, limit)
          ELSE IF title \in seen_titles
          THEN medium_h2_loop(h2_elements, i + 1, results, seen_titles, tag, limit)
          ELSE IF ~h2.evaluate_ok
          THEN medium_h2_loop(h2_elements, i + 1, results, seen_titles \cup {title}, tag, limit)
          ELSE medium_h2_loop(h2_elements, i + 1,
                              Append(results,
                                     [source |-> "Medium",
                                      title |-> Str(title),
                                      url |-> Str(medium_url(h2.href)),
                                      summary |-> 0,
                                      tag |-> tag]),
                              seen_titles \cup {title}, tag, limit)

\* the loop over MEDIUM_TAGS; a failing page.goto skips the tag
RECURSIVE medium_tag_loop(_, _, _, _, _)
medium_tag_loop(pages, t, results, seen_titles, limit) ==
  IF t > Len(MEDIUM_TAGS) \/ Len(results) >= limit THEN results
  ELSE LET tag == MEDIUM_TAGS[t]
           page == pages[tag]
           scanned == medium_h2_loop(page.h2_elements, 1, results, seen_titles, tag, limit)
       IN IF ~page.goto_ok
          THEN medium_tag_loop(pages, t + 1, results, seen_titles, limit)
          ELSE medium_tag_loop(pages, t + 1, scanned.results, scanned.seen_titles, limit)

medium_collect(browser, limit, left) ==
  IF ~browser.PLAYWRIGHT_AVAILABLE THEN Returned(<<>>)
  ELSE IF ~browser.launch_ok THEN Returned(<<>>)
  ELSE IF ~browser.close_ok THEN Returned(<<>>)
  ELSE Returned(medium_tag_loop(browser.pages, 1, FreshList(left), {}, limit))

\* ------------------------------------------------------------------------
\* ai_blogs.collect: the RSS feed of OpenAI, then the news page of Anthropic
ai_blogs_collect(openai, anthropic, clock, days, limit_per_source) ==
  LET rss == fetch_rss(openai, clock, "OpenAI", days, limit_per_source, <<>>)
      scraped == fetch_anthropic(anthropic, days, limit_per_source, <<>>)
  IN IF rss.raised \/ scraped.raised THEN Raised
     ELSE Returned(FreshList(<<>>) \o rss.items \o scraped.items)

\* config.SOURCES: the per-source flags (the urls are not modelled)
SOURCES ==
  [playwright |-> [enabled |-> TRUE], hackernews |-> [enabled |-> TRUE],
   tldr |-> [enabled |-> TRUE], openai_blog |-> [enabled |-> TRUE],
   anthropic_news |-> [enabled |-> TRUE], medium |-> [enabled |-> TRUE]]

\* main.collect_all: the adapters in sequence with their default arguments;
\* there is no try around a call, so the first exception ends the collection
AdapterOrder == <<"playwright_releases", "hackernews", "tldr", "ai_blogs", "medium">>

collect_one(name, up, clock) ==
  CASE name = "playwright_releases" -> pw_collect(up.playwright_releases, clock, 7, 5, <<>>)
    [] name = "hackernews" -> hn_collect(up.hackernews, 20, <<>>)
    [] name = "tldr" -> tldr_collect(up.tldr, clock, 7, 3, <<>>)
    [] name = "ai_blogs" -> ai_blogs_collect(up.openai, up.anthropic, clock, 7, 5)
    [] name = "medium" -> medium_collect(up.medium, 10, <<>>)

RECURSIVE collect_from(_, _, _, _, _)
collect_from(k, collected, invoked, up, clock) ==
  IF k > Len(AdapterOrder)
  THEN [raised |-> FALSE, items |-> collected, invoked |-> invoked]
  ELSE LET got == collect_one(AdapterOrder[k], up, clock)
       IN IF got.raised
          THEN [raised |-> TRUE, items |-> <<>>, invoked |-> Append(invoked, AdapterOrder[k])]
          ELSE collect_from(k + 1, collected \o got.items,
                            Append(invoked, AdapterOrder[k]), up, clock)

collect_all(up, clock) == collect_from(1, <<>>, <<>>, up, clock)

\* ------------------------------------------------------------------------
\* openai_summarizer: grouping by source.  The dict `grouped` is the sequence
\* of its (source, items) pairs in insertion order.
SourceOf(item) == Get(item, "source", "Other")

HasKey(grouped, source) == \E k \in 1..Len(grouped) : grouped[k].source = source

\* a faulty variant: the group replaced by the new item
group_overwrite(grouped, item) ==
  IF ~HasKey(grouped, SourceOf(item))
  THEN Append(grouped, [source |-> SourceOf(item), items |-> <<item>>])
  ELSE [k \in 1..Len(grouped) |->
          IF grouped[k].source = SourceOf(item)
          THEN [grouped[k] EXCEPT !.items = <<item>>] ELSE grouped[k]]

\* grouped[source].append(item), the list created on first sight
group_append(grouped, item) ==
  IF ~HasKey(grouped, SourceOf(item))
  THEN Append(grouped, [source |-> SourceOf(item), items |-> <<item>>])
  ELSE [k \in 1..Len(grouped) |->
          IF grouped[k].source = SourceOf(item)
          THEN [grouped[k] EXCEPT !.items = Append(@, item)] ELSE grouped[k]]

RECURSIVE group_by_source(_, _)
group_by_source(items, grouped) ==
  IF items = <<>> THEN grouped
  ELSE group_by_source(Tail(items), group_append(grouped, Head(items)))

RECURSIVE Flatten(_)
Flatten(ss) == IF ss = <<>> THEN <<>> ELSE Head(ss) \o Flatten(Tail(ss))

\* _format_without_summary: the lines of the listing document
listing_item(item) ==
  IF Truthy(Get(item, "url", Str(<<>>)))
  THEN [tag |-> "li_a", href |-> Fmt(Get(item, "url", Str(<<>>))),
        text |-> Fmt(Get(item, "title", Str(<<>>)))]
  ELSE [tag |-> "li", text |-> Fmt(Get(item, "title", Str(<<>>)))]

listing_group(group) ==
  <<[tag |-> "h2", text |-> group.source], [tag |-> "ul"]>>
  \o MapSeq(group.items, listing_item)
  \o <<[tag |-> "/ul"]>>

format_without_summary(items) ==
  <<[tag |-> "html_body"], [tag |-> "h1"], [tag |-> "notice"]>>
  \o Flatten(MapSeq(group_by_source(items, <<>>), listing_group))
  \o <<[tag |-> "/html_body"]>>

\* _build_prompt: the preferred sources first, then the remaining ones
source_order == <<"Playwright", "Hacker News", "TLDR", "OpenAI", "Anthropic", "Medium">>

InSourceOrder(source) == \E k \in 1..Len(source_order) : source_order[k] = source

prompt_item(item, with_summary) ==
  <<[tag |-> "title", text |-> Fmt(Get(item, "title", Str(<<>>)))]>>
  \o (IF Truthy(Get(item, "url", Str(<<>>)))
      THEN <<[tag |-> "url", text |-> Fmt(Get(item, "url", Str(<<>>)))]>> ELSE <<>>)
  \o (IF with_summary /\ Get(item, "summary", 0) # 0
      THEN <<[tag |-> "summary", len |-> Min(Get(item, "summary", 0), 200)]>> ELSE <<>>)

prompt_group(group, with_summary) ==
  <<[tag |-> "heading", text |-> group.source, count |-> Len(group.items)]>>
  \o Flatten([k \in 1..Len(group.items) |-> prompt_item(group.items[k], with_summary)])

build_prompt(grouped) ==
  <<[tag |-> "instruction"]>>
  \o Flatten([k \in 1..Len(source_order) |->
               Flatten([j \in 1..Len(grouped) |->
                         IF grouped[j].source = source_order[k]
                         THEN prompt_group(grouped[j], TRUE) ELSE <<>>])])
  \o Flatten([j \in 1..Len(grouped) |->
               IF InSourceOrder(grouped[j].source) THEN <<>>
               ELSE prompt_group(grouped[j], FALSE)])

\* summarize: without a key the fallback listing and no call of the model;
\* with one, one call, whose failure falls back to the listing
summarize(items, environ, completion) ==
  IF ~Truthy(environ.OPENAI_API_KEY)
  THEN [doc |-> format_without_summary(items), prompt |-> <<>>, calls |-> 0]
  ELSE IF completion = "raises"
  THEN [doc |-> format_without_summary(items),
        prompt |-> build_prompt(group_by_source(items, <<>>)), calls |-> 1]
  ELSE [doc |-> <<[tag |-> "completion"]>>,
        prompt |-> build_prompt(group_by_source(items, <<>>)), calls |-> 1]

\* ------------------------------------------------------------------------
\* email.send
\* str.split(",")
RECURSIVE SplitComma(_, _)
SplitComma(s, part) ==
  IF s = <<>> THEN <<part>>
  ELSE IF Head(s) = "," THEN <<part>> \o SplitComma(Tail(s), <<>>)
  ELSE SplitComma(Tail(s), Append(part, Head(s)))

\* a faulty variant: the parts kept without strip()
recipients_unstripped(email_to) ==
  SelectSeq(SplitComma(email_to, <<>>), LAMBDA e : e # <<>>)

\* [e.strip() for e in email_to.split(",") if e.strip()]
recipients_of(email_to) ==
  SelectSeq(MapSeq(SplitComma(email_to, <<>>), Strip), LAMBDA e : e # <<>>)

\* the result of send, the number of calls of resend.Emails.send and how the
\* call ended
email_send(content, environ, delivery) ==
  LET api_key == environ.RESEND_API_KEY
      email_to == IF environ.EMAIL_TO.t = "none" THEN <<>> ELSE environ.EMAIL_TO.s
  IN IF ~Truthy(api_key) THEN [result |-> FALSE, calls |-> 0, delivery |-> "not called"]
     ELSE IF email_to = <<>> THEN [result |-> FALSE, calls |-> 0, delivery |-> "not called"]
     ELSE IF recipients_of(email_to) = <<>>
     THEN [result |-> FALSE, calls |-> 0, delivery |-> "not called"]
     ELSE IF delivery = "raises" THEN [result |-> FALSE, calls |-> 1, delivery |-> delivery]
     ELSE [result |-> TRUE, calls |-> 1, delivery |-> delivery]

\* ------------------------------------------------------------------------
\* Upstream contents the adapters are run against
BlankEntry == [title |-> <<>>, atom_title |-> <<>>, link |-> <<>>, atom_href |-> <<>>,
               pubDate |-> None, published |-> None,
               description |-> 0, atom_summary |-> 0]

RssEntry(title, link, date) ==
  [BlankEntry EXCEPT !.title = title, !.link = link, !.pubDate = date]

RssEntries ==
  { RssEntry(<<"Fresh">>, <<"https://openai.com/a">>, DateStr("rfc822_name", 6, 0)),
    RssEntry(<<"Old">>, <<"https://openai.com/b">>, DateStr("rfc822_name", 3, 0)),
    RssEntry(<<"Edge">>, <<"https://openai.com/c">>, DateStr("iso_z", 4, 0)),
    RssEntry(<<"East">>, <<"https://openai.com/d">>, DateStr("rfc822_off", 5, 2)),
    RssEntry(<<"Junk">>, <<"https://openai.com/e">>, DateStr("junk", 0, 0)),
    [RssEntry(<<"Undated">>, <<" ", "https://openai.com/f">>, None) EXCEPT !.description = 600],
    RssEntry(<<"Again">>, <<"https://openai.com/a">>, None),
    RssEntry(<<>>, <<"https://openai.com/g">>, None),
    RssEntry(<<"Linkless">>, <<>>, None),
    [BlankEntry EXCEPT !.atom_title = <<"Atom">>, !.atom_href = <<"https://openai.com/h">>,
                       !.published = DateStr("iso_off", 3, 0 - 2),
                       !.atom_summary = 20] }

SeqsUpTo(S, n) == UNION { [1..k -> S] : k \in 0..n }

RssResponses ==
  { [status |-> "error"], [status |-> "malformed"] }
  \cup { [status |-> "ok", items |-> f] : f \in SeqsUpTo(RssEntries, MaxFeed) }

Limits == (0..MaxLimit) \cup {5}
Days == {1}

Anchor(href, text, has_heading, heading) ==
  [href |-> href, text |-> text, has_heading |-> has_heading, heading |-> heading]

AnthropicLinks ==
  { Anchor(<<"/news/", "claude-4">>, <<"Claude", " ", "News">>, FALSE, <<>>),
    Anchor(<<"/news/", "claude-4">>, <<"News">>, TRUE, <<"Claude">>),
    Anchor(<<"/news/", "policy">>, <<>>, FALSE, <<>>),
    Anchor(<<"/news/", "models">>, <<"Claude">>, TRUE, <<>>),
    Anchor(<<"/about">>, <<"Claude", " ", "News">>, FALSE, <<>>),
    Anchor(<<"/news/", "policy", "/", "pdf">>, <<"Claude", " ", "News">>, FALSE, <<>>) }

AnthropicResponses ==
  { [status |-> "error"] }
  \cup { [status |-> "ok", links |-> f] : f \in SeqsUpTo(AnthropicLinks, MaxLinks) }

HnHits ==
  { [title |-> Str(<<"Story A">>), url |-> Str(<<"https://ex.com/a">>), points |-> Num(10),
     num_comments |-> Num(3), objectID |-> Str(<<"1">>), created_at |-> Str(<<"2024-01-01">>)],
    [title |-> Str(<<"Ask HN">>), url |-> None, points |-> Num(50), objectID |-> Str(<<"2">>)],
    [title |-> Str(<<"Story B">>), url |-> Str(<<"https://ex.com/a">>), points |-> Num(30),
     objectID |-> Str(<<"3">>)],
    [title |-> Str(<<"Story C">>), url |-> Str(<<"https://ex.com/c">>), points |-> None,
     objectID |-> Str(<<"4">>)],
    [title |-> Str(<<"Story D">>), url |-> Str(<<>>), objectID |-> Str(<<"5">>)],
    [title |-> None, url |-> Str(<<"https://ex.com/f">>), points |-> Num(50),
     objectID |-> Str(<<"6">>)] }

HnResponses ==
  { [status |-> "error"], [status |-> "ok", data |-> [message |-> "no hits"]] }
  \cup { [status |-> "ok", data |-> [hits |-> f]] : f \in SeqsUpTo(HnHits, MaxHits) }

PwReleases ==
  { [name |-> Str(<<"v1.50">>), tag_name |-> Str(<<"v1.50.0">>),
     html_url |-> Str(<<"https://github.com/r/1">>),
     published_at |-> DateStr("iso_z", 6, 0), body |-> Text(1200)],
    [name |-> Str(<<"v1.40">>), tag_name |-> Str(<<"v1.40.0">>),
     html_url |-> Str(<<"https://github.com/r/2">>),
     published_at |-> DateStr("iso_z", 3, 0), body |-> Text(10)],
    [name |-> Str(<<"v1.51">>), tag_name |-> Str(<<"v1.51.0">>),
     html_url |-> Str(<<"https://github.com/r/3">>),
     published_at |-> DateStr("iso_off", 7, 1), body |-> None],
    [name |-> None, tag_name |-> Str(<<"v1.49.0">>),
     html_url |-> Str(<<"https://github.com/r/1">>), published_at |-> None],
    [html_url |-> Str(<<"https://github.com/r/5">>),
     published_at |-> DateStr("junk", 0, 0), body |-> Text(0)],
    [name |-> Str(<<"v1.52">>), tag_name |-> Str(<<"v1.52.0">>),
     html_url |-> Str(<<"https://github.com/r/6">>),
     published_at |-> DateStr("iso_naive", 6, 0), body |-> Text(10)],
    [name |-> Str(<<"v1.30">>), tag_name |-> Str(<<"v1.30.0">>),
     html_url |-> Str(<<"https://github.com/r/7">>),
     published_at |-> DateStr("iso_z", 2, 0), body |-> None] }

PwResponses ==
  { [status |-> "error"] }
  \cup { [status |-> "ok", releases |-> f] : f \in SeqsUpTo(PwReleases, MaxReleases) }

TldrLink(href, has_h3, h3, text, has_p, p) ==
  [href |-> href, has_h3 |-> has_h3, h3 |-> h3, text |-> text, has_p |-> has_p, p |-> p]

TldrLinks ==
  { TldrLink(<<"https://ex.com/a", "?", "utm_source=tldrnewsletter">>, TRUE,
             <<"Alpha", " ", "beta", " ", "(3 minute read)">>, <<>>, TRUE, 700),
    TldrLink(<<"https://ex.com/a", "?", "utm_source=tldr">>, TRUE,
             <<"Alpha", " ", "(3 minute read)", " ", "beta">>, <<>>, FALSE, 0),
    TldrLink(<<"https://ex.com/a", "?", "utm_source=tldrnewsletter">>, TRUE,
             <<"beta", " ", "Alpha", " ", "beta">>, <<>>, FALSE, 0),
    TldrLink(<<"https://ex.com/s", "?", "utm_source=tldrnewsletter">>, TRUE,
             <<"Alpha", " ", "beta", " ", "(Sponsor)">>, <<>>, FALSE, 0),
    TldrLink(<<"https://tldr.tech/", "?", "utm_source=tldr">>, TRUE,
             <<"Alpha", " ", "Alpha", " ", "beta">>, <<>>, FALSE, 0),
    TldrLink(<<"https://ex.com/short", "?", "utm_source=tldr">>, TRUE,
             <<"Alpha">>, <<"Alpha", " ", "beta", " ", "beta">>, FALSE, 0),
    TldrLink(<<"https://ex.com/n">>, TRUE,
             <<"Alpha", " ", "beta", " ", "Alpha">>, <<>>, FALSE, 0),
    TldrLink(<<"https://ex.com/b", "?", "utm_source=tldrnewsletter">>, FALSE,
             <<>>, <<"Alpha", "(12minuteread)", " ", "(3 minute read)">>, TRUE, 0),
    TldrLink(<<"https://ex.com/c", "?", "utm_source=tldrnewsletter">>, FALSE,
             <<>>, <<"Alpha", " ", "beta">>, FALSE, 0) }

TldrResponses ==
  { [status |-> "error"] }
  \cup { [status |-> "ok", links |-> f] : f \in SeqsUpTo(TldrLinks, MaxLinks) }

\* the archive: the edition page of each date it has
SiteDates == 1..4

TldrSitePages ==
  { [status |-> "error"],
    [status |-> "ok", links |->
       << TldrLink(<<"https://ex.com/a", "?", "utm_source=tldrnewsletter">>, TRUE,
                   <<"Alpha", " ", "beta", " ", "(3 minute read)">>, <<>>, TRUE, 700) >>],
    [status |-> "ok", links |->
       << TldrLink(<<"https://ex.com/a", "?", "utm_source=tldr">>, TRUE,
                   <<"Alpha", " ", "(3 minute read)", " ", "beta">>, <<>>, FALSE, 0),
          TldrLink(<<"https://ex.com/c", "?", "utm_source=tldrnewsletter">>, FALSE,
                   <<>>, <<"Alpha", " ", "beta">>, FALSE, 0) >>] }

TldrSites == [SiteDates -> TldrSitePages]

H2(text_ok, inner_text, evaluate_ok, href) ==
  [text_ok |-> text_ok, inner_text |-> inner_text, evaluate_ok |-> evaluate_ok, href |-> href]

MediumPages ==
  { [goto_ok |-> FALSE],
    [goto_ok |-> TRUE, h2_elements |-> <<>>],
    [goto_ok |-> TRUE, h2_elements |->
       << H2(TRUE, <<" ", "Testing", " ", "Automation", " ">>, TRUE,
             <<"https://medium.com/p/a", "?", "source=tag">>),
          H2(TRUE, <<"Automation", " ", "Testing">>, TRUE, <<>>) >>],
    [goto_ok |-> TRUE, h2_elements |->
       << H2(TRUE, <<"Testing", " ", "Automation">>, TRUE, <<"https://medium.com/p/b">>),
          H2(TRUE, <<"Alpha", " ", "Automation", " ", "beta">>, TRUE, <<>>),
          H2(TRUE, <<"Automation", " ", "Alpha", " ", "beta">>, TRUE,
             <<"https://medium.com/p/a">>),
          H2(TRUE, <<"Automation", " ", "Automation">>, TRUE,
             <<"https://medium.com/p/t">>) >>],
    [goto_ok |-> TRUE, h2_elements |->
       << H2(TRUE, <<"Recommended", " ", "Automation">>, TRUE, <<"https://medium.com/p/r">>),
          H2(TRUE, <<"Stories In", " ", "Testing">>, TRUE, <<"https://medium.com/p/s">>),
          H2(TRUE, <<"Testing">>, TRUE, <<"https://medium.com/p/t">>),
          H2(FALSE, <<>>, TRUE, <<>>),
          H2(TRUE, <<"Automation", " ", "Automation">>, FALSE, <<>>),
          H2(TRUE, <<"Testing", " ", "Testing", " ", "Alpha">>, TRUE, <<"/p/", "c">>) >>] }

Browsers ==
  [PLAYWRIGHT_AVAILABLE : BOOLEAN, launch_ok : BOOLEAN, close_ok : BOOLEAN,
   pages : [{MEDIUM_TAGS[k] : k \in 1..Len(MEDIUM_TAGS)} -> MediumPages]]

\* ------------------------------------------------------------------------
\* The state: the clock, the last adapter call and a repetition of it, and
\* the run of main().
NoCall == [adapter |-> "none"]

Init ==
  /\ now = StartNow
  /\ call = NoCall
  /\ again = NoCall
  /\ pc = "start"
  /\ news = <<>>
  /\ env = [OPENAI_API_KEY |-> None, RESEND_API_KEY |-> None, EMAIL_TO |-> None]
  /\ doc = <<>>
  /\ prompt = <<>>
  /\ llm_calls = 0
  /\ delivery_calls = 0
  /\ sent = [result |-> "not called", delivery |-> "not called"]

\* the adapter `adapter` applied to upstream content `up` with arguments
\* `args`; `left` is the list the previous call returned
Run(adapter, up, args, clock, left) ==
  CASE adapter = "fetch_rss" -> fetch_rss(up, clock, "OpenAI", args.days, args.limit, left)
    [] adapter = "fetch_anthropic" -> fetch_anthropic(up, args.days, args.limit, left)
    [] adapter = "hackernews.collect" -> hn_collect(up, args.limit, left)
    [] adapter = "playwright_releases.collect" ->
         pw_collect(up, clock, args.days, args.limit, left)
    [] adapter = "tldr.fetch_articles_from_page" ->
         fetch_articles_from_page(up, args.date_str, args.limit, left)
    [] adapter = "tldr.collect" -> tldr_collect(up, clock, args.days, args.per_day, left)
    [] adapter = "medium.collect" -> medium_collect(up, args.limit, left)

Called(adapter, up, args) ==
  [adapter |-> adapter, upstream |-> up, args |-> args, now |-> now,
   outcome |-> Run(adapter, up, args, now,
                   IF call = NoCall THEN <<>> ELSE call.outcome.items)]

\* the environment of a run
Envs ==
  [OPENAI_API_KEY : {None, Str(<<>>), Str(<<"sk-key">>)},
   RESEND_API_KEY : {None, Str(<<>>), Str(<<"re-key">>)},
   EMAIL_TO : {None, Str(<<>>), Str(<<" ", ",", " ">>), Str(<<"a@x.io">>),
               Str(<<" ", "a@x.io", ",", ",", "b@y.io", " ">>)}]

\* what the sources serve during a run of main()
MainUpstreams ==
  [playwright_releases :
     {[status |-> "error"]}
     \cup {[status |-> "ok", releases |-> <<r>>] :
             r \in {x \in PwReleases : x.html_url.s \in {<<"https://github.com/r/2">>,
                                                         <<"https://github.com/r/3">>}}},
   hackernews :
     {[status |-> "error"]}
     \cup {[status |-> "ok", data |-> [hits |-> <<h, g>>]] :
             h \in {x \in HnHits : x.objectID.s = <<"1">>},
             g \in {x \in HnHits : x.objectID.s \in {<<"2">>, <<"4">>}}},
   tldr : {[d \in SiteDates |-> p] : p \in TldrSitePages},
   openai : {[status |-> "malformed"]}
            \cup {[status |-> "ok", items |-> <<e>>] :
                    e \in {x \in RssEntries : x.title = <<"Fresh">>}},
   anthropic : {[status |-> "error"]}
               \cup {[status |-> "ok", links |-> <<a>>] :
                       a \in {x \in AnthropicLinks : x.text = <<"Claude">>}},
   medium : {b \in Browsers : /\ b.launch_ok /\ b.close_ok
                              /\ b.pages["technology"].goto_ok
                              /\ Len(b.pages["technology"].h2_elements) = 2
                              /\ \A tag \in DOMAIN b.pages : b.pages[tag] = b.pages["technology"]}]

MainEnvs ==
  {e \in Envs : /\ e.OPENAI_API_KEY # Str(<<>>) /\ e.RESEND_API_KEY # Str(<<>>)
                /\ e.EMAIL_TO \in {None, Str(<<"a@x.io">>)}}

\* the items handed to summarize when it is exercised on its own
NewsItems ==
  { [source |-> "TLDR", title |-> Str(<<"Alpha">>), url |-> Str(<<"https://ex.com/a">>),
     summary |-> 300, date |-> 3],
    [source |-> "Playwright", title |-> Str(<<"v1.50">>), url |-> None, body |-> 1000],
    [source |-> "Lobsters", title |-> Str(<<"beta">>), url |-> Str(<<"https://ex.com/b">>)],
    [title |-> Str(<<"Testing">>), url |-> Str(<<"https://ex.com/c">>)],
    [source |-> "TLDR", title |-> Str(<<"beta">>), url |-> Str(<<>>), summary |-> 0],
    [source |-> "Hacker News", title |-> None, url |-> Str(<<"https://ex.com/a">>),
     score |-> Num(5)] }

InitMain ==
  /\ now = StartNow
  /\ call = NoCall
  /\ again = NoCall
  /\ pc = "start"
  /\ news = <<>>
  /\ env \in MainEnvs
  /\ doc = <<>>
  /\ prompt = <<>>
  /\ llm_calls = 0
  /\ delivery_calls = 0
  /\ sent = [result |-> "not called", delivery |-> "not called"]

InitSummarize ==
  /\ now = StartNow
  /\ call = NoCall
  /\ again = NoCall
  /\ pc = "collected"
  /\ news \in SeqsUpTo(NewsItems, MaxNews)
  /\ env \in Envs
  /\ doc = <<>>
  /\ prompt = <<>>
  /\ llm_calls = 0
  /\ delivery_calls = 0
  /\ sent = [result |-> "not called", delivery |-> "not called"]

\* main(): news = collect_all()
CollectAll ==
  /\ pc = "start"
  /\ \E up \in MainUpstreams :
       LET got == collect_all(up, now)
       IN /\ call' = [adapter |-> "collect_all", upstream |-> up, now |-> now, outcome |-> got]
          /\ news' = got.items
          /\ pc' = IF got.raised THEN "crashed" ELSE "collected"
  /\ UNCHANGED <<now, again, env, doc, prompt, llm_calls, delivery_calls, sent>>

\* main(): summary = summarize(news)
Summarize ==
  /\ pc = "collected"
  /\ \E completion \in {"returns", "raises"} :
       LET got == summarize(news, env, completion)
       IN /\ doc' = got.doc
          /\ prompt' = got.prompt
          /\ llm_calls' = llm_calls + got.calls
  /\ pc' = "summarized"
  /\ UNCHANGED <<now, call, again, news, env, delivery_calls, sent>>

\* main(): send(summary)
Send ==
  /\ pc = "summarized"
  /\ \E delivery \in {"returns", "raises"} :
       LET got == email_send(doc, env, delivery)
       IN /\ sent' = [result |-> IF got.result THEN "True" ELSE "False",
                       delivery |-> got.delivery]
          /\ delivery_calls' = delivery_calls + got.calls
  /\ pc' = "done"
  /\ UNCHANGED <<now, call, again, news, env, doc, prompt, llm_calls>>

\* the wall clock advances
Tick ==
  /\ now < MaxNow
  /\ now' = now + 1
  /\ UNCHANGED <<call, again, pc, news, env, doc, prompt, llm_calls, delivery_calls, sent>>

CallFetchRss ==
  /\ call = NoCall
  /\ \E up \in RssResponses, days \in Days, limit \in Limits :
       call' = Called("fetch_rss", up, [days |-> days, limit |-> limit])
  /\ again' = NoCall
  /\ UNCHANGED <<now, pc, news, env, doc, prompt, llm_calls, delivery_calls, sent>>

CallFetchAnthropic ==
  /\ call = NoCall
  /\ \E up \in AnthropicResponses, days \in Days, limit \in Limits :
       call' = Called("fetch_anthropic", up, [days |-> days, limit |-> limit])
  /\ again' = NoCall
  /\ UNCHANGED <<now, pc, news, env, doc, prompt, llm_calls, delivery_calls, sent>>

CallHackerNews ==
  /\ call = NoCall
  /\ \E up \in HnResponses, limit \in Limits :
       call' = Called("hackernews.collect", up, [limit |-> limit])
  /\ again' = NoCall
  /\ UNCHANGED <<now, pc, news, env, doc, prompt, llm_calls, delivery_calls, sent>>

CallPlaywrightReleases ==
  /\ call = NoCall
  /\ \E up \in PwResponses, days \in Days, limit \in Limits :
       call' = Called("playwright_releases.collect", up, [days |-> days, limit |-> limit])
  /\ again' = NoCall
  /\ UNCHANGED <<now, pc, news, env, doc, prompt, llm_calls, delivery_calls, sent>>

CallTldrPage ==
  /\ call = NoCall
  /\ \E up \in TldrResponses, limit \in Limits :
       call' = Called("tldr.fetch_articles_from_page", up,
                      [date_str |-> Today(now), limit |-> limit])
  /\ again' = NoCall
  /\ UNCHANGED <<now, pc, news, env, doc, prompt, llm_calls, delivery_calls, sent>>

CallTldrCollect ==
  /\ call = NoCall
  /\ \E up \in TldrSites, per_day \in Limits :
       call' = Called("tldr.collect", up, [days |-> 2, per_day |-> per_day])
  /\ again' = NoCall
  /\ UNCHANGED <<now, pc, news, env, doc, prompt, llm_calls, delivery_calls, sent>>

CallMedium ==
  /\ call = NoCall
  /\ \E up \in Browsers, limit \in Limits :
       call' = Called("medium.collect", up, [limit |-> limit])
  /\ again' = NoCall
  /\ UNCHANGED <<now, pc, news, env, doc, prompt, llm_calls, delivery_calls, sent>>

\* the same adapter is called a second time on identical upstream content
CallAgain ==
  /\ call # NoCall
  /\ again' = Called(call.adapter, call.upstream, call.args)
  /\ UNCHANGED <<now, call, pc, news, env, doc, prompt, llm_calls, delivery_calls, sent>>

Next ==
  \/ Tick
  \/ CallFetchRss
  \/ CallFetchAnthropic
  \/ CallHackerNews
  \/ CallPlaywrightReleases
  \/ CallTldrPage
  \/ CallTldrCollect
  \/ CallMedium
  \/ CallAgain

Spec == Init /\ [][Next]_vars

\* a run of main()
NextMain == CollectAll \/ Summarize \/ Send

SpecMain == InitMain /\ [][NextMain]_vars

\* summarize and send on an arbitrary list of items
NextSummarize == Summarize \/ Send

SpecSummarize == InitSummarize /\ [][NextSummarize]_vars

\* get_newsletter_urls on each day of a week, for every number of days;
\* the first day is late enough for every date of the lookback to be day 0
\* or later
InitUrls ==
  /\ now = StartNow + (MaxDays + 7) * DayTicks
  /\ call = NoCall
  /\ again = NoCall
  /\ pc = "start"
  /\ news = <<>>
  /\ env = [OPENAI_API_KEY |-> None, RESEND_API_KEY |-> None, EMAIL_TO |-> None]
  /\ doc = <<>>
  /\ prompt = <<>>
  /\ llm_calls = 0
  /\ delivery_calls = 0
  /\ sent = [result |-> "not called", delivery |-> "not called"]

\* a day passes
NextDay ==
  /\ now < StartNow + (MaxDays + 7) * DayTicks + 6 * DayTicks
  /\ now' = now + DayTicks
  /\ UNCHANGED <<call, again, pc, news, env, doc, prompt, llm_calls, delivery_calls, sent>>

CallNewsletterUrls ==
  /\ call = NoCall
  /\ \E days \in 1..MaxDays :
       call' = [adapter |-> "tldr.get_newsletter_urls", args |-> [days |-> days],
                now |-> now, outcome |-> Returned(get_newsletter_urls(now, days))]
  /\ UNCHANGED <<now, again, pc, news, env, doc, prompt, llm_calls, delivery_calls, sent>>

NextUrls == NextDay \/ CallNewsletterUrls

SpecUrls == InitUrls /\ [][NextUrls]_vars

\* ------------------------------------------------------------------------
\* Properties of a single adapter call

Items == call.outcome.items

\* the publish instant in UTC of a date string some known format parses, a
\* date without a timezone being read as UTC
Parses(ds) == ds.t = "date" /\ ds.shape \in {"rfc822_name", "rfc822_off", "iso_off", "iso_z"}

Instant(ds) == IF ds.shape \in {"rfc822_off", "iso_off"} THEN ds.at - ds.off ELSE ds.at

EntryTitle(e) == IF e.title # <<>> THEN e.title ELSE e.atom_title
EntryLink(e) == IF e.link # <<>> THEN e.link ELSE e.atom_href
EntryDate(e) == IF e.pubDate.t = "date" THEN e.pubDate ELSE e.published
Complete(e) == EntryTitle(e) # <<>> /\ EntryLink(e) # <<>>

IsRssCall == call.adapter = "fetch_rss" /\ call.upstream.status = "ok"
Feed == call.upstream.items
Cutoff == call.now - call.args.days * DayTicks

Count(s, P(_)) == Cardinality({k \in 1..Len(s) : P(s[k])})

\* C1: whatever the upstream response holds, an adapter returns no more
\* items than the cap it was asked for (limit; per edition for the
\* newsletter page).
C1_SizeWithinCap ==
  (call.adapter \in {"fetch_rss", "fetch_anthropic", "hackernews.collect",
                     "playwright_releases.collect", "tldr.fetch_articles_from_page",
                     "medium.collect"}
   /\ ~call.outcome.raised)
  => Len(Items) <= call.args.limit

\* C2: the urls of the items one adapter call returns are pairwise distinct.
C2_UrlsDistinct ==
  call # NoCall =>
    \A i, j \in 1..Len(Items) : i < j => Items[i].url # Items[j].url

\* C4: fetch_rss returns no entry whose publish date parses to an instant
\* strictly before now - days (a date without timezone read as UTC), and,
\* unless the cap was reached, returns every entry with a title and a link
\* whose date is absent or unparseable.
C4_RssRecency ==
  IsRssCall =>
    /\ \A k \in 1..Len(Items) :
         Parses(Items[k].published_at) => Instant(Items[k].published_at) >= Cutoff
    /\ Len(Items) < call.args.limit =>
         Count(Items, LAMBDA it : ~Parses(it.published_at))
           = Count(Feed, LAMBDA e : Complete(e) /\ ~Parses(EntryDate(e)))

C4_Witness ==
  /\ IsRssCall
  /\ \E k \in 1..Len(Feed) :
       /\ Complete(Feed[k]) /\ EntryDate(Feed[k]).t = "date"
       /\ EntryDate(Feed[k]).shape = "rfc822_name"
       /\ Instant(EntryDate(Feed[k])) < Cutoff
  /\ \E k \in 1..Len(Items) : Items[k].published_at.t = "date" /\ ~Parses(Items[k].published_at)
  /\ Len(Items) < call.args.limit

\* C5: hackernews.collect returns, for any hits, the mapped hits sorted by
\* score descending (a permutation of them, every adjacent pair ordered).
HnHitsOf(c) == Get(c.upstream.data, "hits", <<>>)

IsPermutation(a, b) ==
  /\ Len(a) = Len(b)
  /\ \A x \in {a[k] : k \in 1..Len(a)} :
       Count(a, LAMBDA y : y = x) = Count(b, LAMBDA y : y = x)

C5_SortedByScore ==
  (call.adapter = "hackernews.collect" /\ call.upstream.status = "ok") =>
    /\ ~call.outcome.raised
    /\ IsPermutation(Items, MapSeq(HnHitsOf(call), hn_item))
    /\ \A k \in 1..(Len(Items) - 1) :
         /\ Items[k].score.t = "int" /\ Items[k + 1].score.t = "int"
         /\ Items[k].score.n >= Items[k + 1].score.n

\* C7: a newsletter title is emitted with its read-time marker removed and
\* every other character, the whitespace between the remaining words
\* included, kept verbatim and in order.
RECURSIVE drop_read_time(_)
drop_read_time(s) ==
  IF s = <<>> THEN <<>>
  ELSE IF Head(s) \in ReadTimeTokens THEN drop_read_time(Tail(s))
       ELSE <<Head(s)>> \o drop_read_time(Tail(s))

LinkTitle(link) == IF link.has_h3 THEN link.h3 ELSE link.text

C7_TitleVerbatim ==
  (call.adapter = "tldr.fetch_articles_from_page" /\ call.upstream.status = "ok") =>
    \A k \in 1..Len(Items) :
      \E j \in 1..Len(call.upstream.links) :
        /\ Items[k].url = Str(BeforeQuery(call.upstream.links[j].href))
        /\ Items[k].title = Str(Strip(drop_read_time(LinkTitle(call.upstream.links[j]))))

\* C8: on a feed whose entries all have a title and a link, fetch_rss returns
\* exactly the first min(limit, k) of the k entries that are not older than
\* the window, in feed order; skipped entries do not consume the cap.
NotOld(e) == Parses(EntryDate(e)) => Instant(EntryDate(e)) >= Cutoff

C8_RssPrefixOfKept ==
  (IsRssCall /\ \A k \in 1..Len(Feed) : Complete(Feed[k])) =>
    LET kept == SelectSeq(Feed, NotOld)
    IN /\ Len(Items) = Min(call.args.limit, Len(kept))
       /\ \A k \in 1..Len(Items) :
            /\ Items[k].title = Str(Strip(EntryTitle(kept[k])))
            /\ Items[k].url = Str(Strip(EntryLink(kept[k])))
            /\ Items[k].published_at = EntryDate(kept[k])

C8_Witness ==
  /\ IsRssCall
  /\ Len(Feed) >= 2
  /\ \A k \in 1..Len(Feed) : Complete(Feed[k])
  /\ ~NotOld(Feed[1])
  /\ Len(Items) = call.args.limit
  /\ Len(Items) >= 1

ClockFree == {"fetch_anthropic", "hackernews.collect", "tldr.fetch_articles_from_page",
              "medium.collect"}

ItemsOfOthers(up, clock) ==
  Flatten([k \in 1..Len(AdapterOrder) |->
             IF collect_one(AdapterOrder[k], up, clock).raised THEN <<>>
             ELSE collect_one(AdapterOrder[k], up, clock).items])

C3_FailureIsolated ==
  call.adapter = "collect_all" =>
    /\ ~call.outcome.raised
    /\ pc # "crashed"
    /\ call.outcome.items = ItemsOfOthers(call.upstream, call.now)

\* C6: without OPENAI_API_KEY, summarize calls no model and returns a
\* non-empty listing in which each source has one heading and, under it, one
\* line per item of that source, in input order, carrying the item's title
\* and (when it has one) its url; no other item lines exist.
TitleText(item) == IF item.title.t = "none" THEN <<"None">> ELSE item.title.s
HasUrl(item) == item.url.t = "str" /\ item.url.s # <<>>

ShowsItem(line, item) ==
  /\ line.tag \in {"li", "li_a"}
  /\ line.text = TitleText(item)
  /\ HasUrl(item) => (line.tag = "li_a" /\ line.href = item.url.s)

Headings(source) == {k \in 1..Len(doc) : doc[k].tag = "h2" /\ doc[k].text = source}

SectionOf(source) ==
  LET h == CHOOSE k \in Headings(source) : TRUE
      e == CHOOSE k \in h..Len(doc) :
             doc[k].tag = "/ul" /\ \A m \in h..(k - 1) : doc[m].tag # "/ul"
  IN SubSeq(doc, h + 2, e - 1)

C6_FallbackListing ==
  (pc \in {"summarized", "done"} /\ ~Truthy(env.OPENAI_API_KEY)) =>
    /\ llm_calls = 0
    /\ doc # <<>>
    /\ Count(doc, LAMBDA line : line.tag \in {"li", "li_a"}) = Len(news)
    /\ \A n \in 1..Len(news) :
         LET of_source == SelectSeq(news, LAMBDA it : SourceOf(it) = SourceOf(news[n]))
         IN /\ Cardinality(Headings(SourceOf(news[n]))) = 1
            /\ Len(SectionOf(SourceOf(news[n]))) = Len(of_source)
            /\ \A k \in 1..Len(of_source) :
                 ShowsItem(SectionOf(SourceOf(news[n]))[k], of_source[k])

C6_Witness ==
  /\ pc = "summarized"
  /\ env.OPENAI_API_KEY = Str(<<>>)
  /\ Len(news) = 3
  /\ SourceOf(news[1]) = SourceOf(news[3])
  /\ SourceOf(news[1]) # SourceOf(news[2])
  /\ news[1] # news[3]

\* C10: send returns False without a delivery call when RESEND_API_KEY or
\* EMAIL_TO is missing or EMAIL_TO holds no non-blank address; otherwise it
\* makes exactly one delivery call and returns True if the call returns,
\* False if it raises; it never retries and never raises.
HasAddress(v) == v.t = "str" /\ \E k \in 1..Len(v.s) : v.s[k] \notin {" ", ","}
HasKeyValue(v) == v.t = "str" /\ v.s # <<>>

C10_SendContract ==
  pc = "done" =>
    IF ~HasKeyValue(env.RESEND_API_KEY) \/ ~HasAddress(env.EMAIL_TO)
    THEN sent.result = "False" /\ delivery_calls = 0 /\ sent.delivery = "not called"
    ELSE /\ delivery_calls = 1
         /\ sent.delivery \in {"returns", "raises"}
         /\ sent.result = (IF sent.delivery = "returns" THEN "True" ELSE "False")

C10_Witness ==
  /\ pc = "done"
  /\ HasKeyValue(env.RESEND_API_KEY)
  /\ env.EMAIL_TO = Str(<<" ", ",", " ">>)
  /\ delivery_calls = 0
  /\ sent.result = "False"

\* ------------------------------------------------------------------------
\* Properties of the presentation order

\* the sources of a list in the order first encountered
RECURSIVE FirstSeen(_, _)
FirstSeen(items, seen) ==
  IF items = <<>> THEN seen
  ELSE IF \E k \in 1..Len(seen) : seen[k] = SourceOf(Head(items))
       THEN FirstSeen(Tail(items), seen)
       ELSE FirstSeen(Tail(items), Append(seen, SourceOf(Head(items))))

Preferred == <<"Playwright", "Hacker News", "TLDR", "OpenAI", "Anthropic", "Medium">>

IsPreferred(source) == \E k \in 1..Len(Preferred) : Preferred[k] = source

PresentationOrder(items) ==
  SelectSeq(Preferred, LAMBDA s : \E k \in 1..Len(items) : SourceOf(items[k]) = s)
  \o SelectSeq(FirstSeen(items, <<>>), LAMBDA s : ~IsPreferred(s))

TitlesInOrder(items) ==
  Flatten([k \in 1..Len(PresentationOrder(items)) |->
             MapSeq(SelectSeq(items, LAMBDA it : SourceOf(it) = PresentationOrder(items)[k]),
                    TitleText)])

TextsOf(lines, tags) == MapSeq(SelectSeq(lines, LAMBDA line : line.tag \in tags),
                               LAMBDA line : line.text)

IsListing(document) == document # <<>> /\ document[1].tag = "html_body"

\* C11: the prompt and the fallback listing both present the sources in the
\* preferred order Playwright, Hacker News, TLDR, OpenAI, Anthropic, Medium,
\* then the remaining sources in the order first encountered, every input
\* item once under its source, in input order within the source.
C11_PreferredOrder ==
  pc \in {"summarized", "done"} =>
    /\ prompt # <<>> =>
         /\ TextsOf(prompt, {"heading"}) = PresentationOrder(news)
         /\ TextsOf(prompt, {"title"}) = TitlesInOrder(news)
    /\ IsListing(doc) =>
         /\ TextsOf(doc, {"h2"}) = PresentationOrder(news)
         /\ TextsOf(doc, {"li", "li_a"}) = TitlesInOrder(news)

\* ------------------------------------------------------------------------
\* Properties of the items' fields

\* the adapter's minimum title length
MinTitle(adapter) ==
  CASE adapter = "fetch_anthropic" -> 5
    [] adapter = "medium.collect" -> 15
    [] OTHER -> 1

\* C12: every item an adapter returns has a non-empty title, of at least the
\* adapter's minimum length: an entry whose title is missing, null, empty or
\* too short is dropped (a hit without title, a release with neither name
\* nor tag).
C12_TitleNonEmpty ==
  (call # NoCall /\ ~call.outcome.raised) =>
    \A k \in 1..Len(Items) :
      /\ Items[k].title.t = "str"
      /\ Items[k].title.s # <<>>
      /\ StrLen(Items[k].title.s) >= MinTitle(call.adapter)

\* the tokens that open an absolute URL (scheme and host)
SchemeTokens ==
  {"https://ex.com/a", "https://ex.com/b", "https://ex.com/c", "https://ex.com/n",
   "https://ex.com/s", "https://ex.com/short", "https://tldr.tech/",
   "https://advertise.tldr.tech/", "https://medium.com", "https://medium.com/p/a",
   "https://medium.com/p/b", "https://medium.com/p/r", "https://medium.com/p/s",
   "https://medium.com/p/t"}

IsAbsolute(u) == u # <<>> /\ u[1] \in SchemeTokens

\* C13: every item of the newsletter adapter and of the Medium adapter has
\* a url that is absolute and carries no query string; none has an empty or
\* relative url, a heading without enclosing link included.
C13_UrlAbsoluteNoQuery ==
  (call.adapter \in {"tldr.fetch_articles_from_page", "tldr.collect", "medium.collect"}
   /\ ~call.outcome.raised) =>
    \A k \in 1..Len(Items) :
      /\ Items[k].url.t = "str"
      /\ IsAbsolute(Items[k].url.s)
      /\ ~HasQuery(Items[k].url.s)

\* the fixed maximum length of a summary
MaxSummary == 500

\* C14: the summary of every item that has one is at most 500 characters
\* long, whatever the length of the upstream description or paragraph.
C14_SummaryBounded ==
  (call # NoCall /\ ~call.outcome.raised) =>
    \A k \in 1..Len(Items) :
      "summary" \in DOMAIN Items[k] => Items[k].summary <= MaxSummary

\* ------------------------------------------------------------------------
\* Properties of the aggregator

\* the adapters whose sources are enabled; ai_blogs serves two sources
AdapterEnabled(name) ==
  CASE name = "playwright_releases" -> SOURCES.playwright.enabled
    [] name = "hackernews" -> SOURCES.hackernews.enabled
    [] name = "tldr" -> SOURCES.tldr.enabled
    [] name = "ai_blogs" -> SOURCES.openai_blog.enabled \/ SOURCES.anthropic_news.enabled
    [] name = "medium" -> SOURCES.medium.enabled

SourceEnabled(item) ==
  CASE item.source = "Playwright" -> SOURCES.playwright.enabled
    [] item.source = "Hacker News" -> SOURCES.hackernews.enabled
    [] item.source = "TLDR" -> SOURCES.tldr.enabled
    [] item.source = "OpenAI" -> SOURCES.openai_blog.enabled
    [] item.source = "Anthropic" -> SOURCES.anthropic_news.enabled
    [] item.source = "Medium" -> SOURCES.medium.enabled

OutputOf(name, up, clock) ==
  IF AdapterEnabled(name)
  THEN SelectSeq(collect_one(name, up, clock).items, SourceEnabled) ELSE <<>>

\* C15: collect_all invokes each enabled adapter exactly once, in the
\* sequence Playwright releases, Hacker News, TLDR, AI blogs (OpenAI, then
\* Anthropic), Medium, and returns the concatenation of their outputs in
\* that sequence; a source whose enabled flag is false contributes nothing.
C15_FixedSequence ==
  call.adapter = "collect_all" =>
    /\ call.outcome.invoked = SelectSeq(AdapterOrder, AdapterEnabled)
    /\ ~call.outcome.raised
    /\ call.outcome.items =
         Flatten([k \in 1..Len(AdapterOrder) |->
                    OutputOf(AdapterOrder[k], call.upstream, call.now)])

\* ------------------------------------------------------------------------
\* Properties of playwright_releases.collect

IsPwCall == call.adapter = "playwright_releases.collect" /\ call.upstream.status = "ok"

Releases == call.upstream.releases

ReleaseDate(release) == Get(release, "published_at", None)

\* a timestamp fromisoformat accepts, and its instant in UTC
IsoParses(ds) == ds.t = "date" /\ ds.shape \in {"iso_z", "iso_off", "iso_naive"}

IsoInstant(ds) == IF ds.shape = "iso_off" THEN ds.at - ds.off ELSE ds.at

InWindow(release) ==
  IsoParses(ReleaseDate(release)) => IsoInstant(ReleaseDate(release)) >= Cutoff

\* C16: playwright_releases.collect returns exactly the releases, in API
\* order, among the first `limit` of the response whose published timestamp
\* is unparseable, absent or not older than now - days; a release at a later
\* position is never returned, even when releases of the prefix were
\* excluded as too old.
C16_PrefixThenFilter ==
  IsPwCall =>
    LET prefix == SubSeq(Releases, 1, Min(call.args.limit, Len(Releases)))
        kept == SelectSeq(prefix, InWindow)
    IN /\ ~call.outcome.raised
       /\ Len(Items) = Len(kept)
       /\ \A k \in 1..Len(Items) :
            /\ Items[k].url = Get(kept[k], "html_url", None)
            /\ Items[k].published_at = ReleaseDate(kept[k])
            /\ Items[k].tag = Get(kept[k], "tag_name", None)

\* ------------------------------------------------------------------------
\* Properties of medium.collect

IsMediumCall == call.adapter = "medium.collect"

\* a heading that names an article and whose extraction does not fail
GoodHeading(h2) ==
  /\ h2.text_ok
  /\ h2.evaluate_ok
  /\ StrLen(Strip(h2.inner_text)) >= 15
  /\ ~IsBoilerplate(Strip(h2.inner_text))

\* the headings of the tag pages that could be navigated to and scanned
HeadingsOn(tag) ==
  IF call.upstream.pages[tag].goto_ok
  THEN {call.upstream.pages[tag].h2_elements[k] :
          k \in 1..Len(call.upstream.pages[tag].h2_elements)}
  ELSE {}

MediumTags == {MEDIUM_TAGS[k] : k \in 1..Len(MEDIUM_TAGS)}

\* C17: in medium.collect a failing tag page skips only that tag and a
\* failing heading only that heading: unless the cap is reached, the article
\* of every other heading is returned, and nothing else is; only a failed
\* browser launch empties the result, and no exception escapes.
C17_MediumFailureHandling ==
  (IsMediumCall /\ call.upstream.PLAYWRIGHT_AVAILABLE /\ call.upstream.launch_ok) =>
    /\ ~call.outcome.raised
    /\ \A k \in 1..Len(Items) :
         \E tag \in MediumTags : \E h2 \in HeadingsOn(tag) :
           /\ GoodHeading(h2)
           /\ Items[k].tag = tag
           /\ Items[k].title = Str(Strip(h2.inner_text))
    /\ Len(Items) < call.args.limit =>
         \A tag \in MediumTags : \A h2 \in HeadingsOn(tag) :
           GoodHeading(h2) =>
             \E k \in 1..Len(Items) : Items[k].title = Str(Strip(h2.inner_text))

\* ------------------------------------------------------------------------
\* Properties of tldr.get_newsletter_urls

IsUrlsCall == call.adapter = "tldr.get_newsletter_urls"

DateOf(pair) == pair[2]

IsSatOrSun(date) == date % 7 \in {5, 6}

RunDay == call.now \div DayTicks

\* the weekdays among the days + 7 dates of the lookback
WeekdaysInLookback ==
  {d \in (RunDay - (call.args.days + 6))..RunDay : ~IsSatOrSun(d)}

\* the pairs are well formed: a url per date, no weekend date, strictly
\* descending from the most recent weekday not after today, no weekday
\* skipped between two of them
UrlsWellFormed ==
  /\ \A k \in 1..Len(Items) :
       /\ Items[k][1] = <<"https://tldr.tech/tech/", DateOf(Items[k])>>
       /\ ~IsSatOrSun(DateOf(Items[k]))
       /\ DateOf(Items[k]) <= RunDay
  /\ \A k \in 1..(Len(Items) - 1) :
       /\ DateOf(Items[k]) > DateOf(Items[k + 1])
       /\ \A d \in (DateOf(Items[k + 1]) + 1)..(DateOf(Items[k]) - 1) : IsSatOrSun(d)
  /\ Len(Items) >= 1 => \A d \in (DateOf(Items[1]) + 1)..RunDay : IsSatOrSun(d)

\* C18: for every days >= 1, run on any of Monday to Friday,
\* get_newsletter_urls(days) returns exactly `days` pairs, their dates
\* distinct, none a Saturday or Sunday, strictly descending from the most
\* recent weekday not after today: the days + 7 lookback always suffices.
C18_ExactlyDays ==
  (IsUrlsCall /\ ~IsSatOrSun(RunDay)) =>
    /\ Len(Items) = call.args.days
    /\ UrlsWellFormed

\* C18, amended: on any day of the week the pairs are well formed and their
\* number is the smaller of `days` and the number of weekdays among the
\* days + 7 dates of the lookback; that is `days` whenever days <= 15.
C18_UpToDays ==
  IsUrlsCall =>
    /\ UrlsWellFormed
    /\ Len(Items) = Min(call.args.days, Cardinality(WeekdaysInLookback))
    /\ call.args.days <= 15 => Len(Items) = call.args.days

C18_Witness ==
  /\ IsUrlsCall
  /\ RunDay % 7 = 6
  /\ call.args.days = 7
  /\ Len(Items) = 7
  /\ DateOf(Items[1]) = RunDay - 2
  /\ DateOf(Items[7]) = RunDay - 10

====
